---- MODULE Spec2Model ----
(***************************************************************************)
(* A model of delete_silent_wavs.py: the WAV silence classifier            *)
(* (is_silent_fast, get_peak_db, is_empty_wav) and the scan / plan /       *)
(* confirm / remove / rename flow of main().                               *)
(*                                                                         *)
(* Strings (file names, the typed answer) are sequences of characters; PCM *)
(* data is a sequence of bytes 0..255.  Python's True, False and None are  *)
(* the strings "True", "False" and "None".                                 *)
(***************************************************************************)
EXTENDS Integers, Sequences, FiniteSets, TLC

\* ------------------------------------------------------------------------
\* Bounds of the model
\* ------------------------------------------------------------------------

\* Largest number of directory entries in a run of the whole program.
MaxFiles == 2

\* Largest number of samples in a file handed to the classifier alone.
MaxSamples == 3

\* Largest chunk, in frames, among the small chunk budgets tried besides
\* the shipped CHUNK_SIZE.
MaxChunkFrames == 2

\* ------------------------------------------------------------------------
\* Program constants
\* ------------------------------------------------------------------------

SILENCE_THRESHOLD_DB == -115

CHUNK_SIZE == 1048576

None == "None"

\* ------------------------------------------------------------------------
\* Python string operations used by main()
\* ------------------------------------------------------------------------

\* A character is a one-character string when it is printable ASCII or one
\* of "\t", "\n", "\f", "\r"; any other character is written as its code
\* point, "U+00C9".  The alphabet of the model is ASCII, Latin-1, U+0130,
\* U+0307 and the characters of Whitespace.

\* The characters str.lower() changes: A-Z and the Latin-1 capitals.
Upper == <<"A","B","C","D","E","F","G","H","I","J","K","L","M","N","O",
          "P","Q","R","S","T","U","V","W","X","Y","Z","U+00C0",
          "U+00C1","U+00C2","U+00C3","U+00C4","U+00C5","U+00C6",
          "U+00C7","U+00C8","U+00C9","U+00CA","U+00CB","U+00CC",
          "U+00CD","U+00CE","U+00CF","U+00D0","U+00D1","U+00D2",
          "U+00D3","U+00D4","U+00D5","U+00D6","U+00D8","U+00D9",
          "U+00DA","U+00DB","U+00DC","U+00DD","U+00DE">>

\* Their lower-case forms, position by position.
Lower == <<"a","b","c","d","e","f","g","h","i","j","k","l","m","n","o",
          "p","q","r","s","t","u","v","w","x","y","z","U+00E0",
          "U+00E1","U+00E2","U+00E3","U+00E4","U+00E5","U+00E6",
          "U+00E7","U+00E8","U+00E9","U+00EA","U+00EB","U+00EC",
          "U+00ED","U+00EE","U+00EF","U+00F0","U+00F1","U+00F2",
          "U+00F3","U+00F4","U+00F5","U+00F6","U+00F8","U+00F9",
          "U+00FA","U+00FB","U+00FC","U+00FD","U+00FE">>

\* str.lower() on one character: a string, since U+0130 (capital I with dot
\* above) lowers to the two characters "i", U+0307.
LowerChar(c) ==
    IF c = "U+0130" THEN <<"i", "U+0307">>
    ELSE IF \E i \in 1..Len(Upper) : Upper[i] = c
    THEN <<Lower[CHOOSE i \in 1..Len(Upper) : Upper[i] = c]>>
    ELSE <<c>>

\* str.lower()
RECURSIVE StrLower(_)
StrLower(s) ==
    IF s = <<>> THEN <<>> ELSE LowerChar(Head(s)) \o StrLower(Tail(s))

\* The characters str.strip() removes: those for which str.isspace() holds.
Whitespace ==
    {" ", "\t", "\n", "\f", "\r",
     "U+000B","U+001C","U+001D","U+001E","U+001F","U+0085",
     "U+00A0","U+1680","U+2000","U+2001","U+2002","U+2003",
     "U+2004","U+2005","U+2006","U+2007","U+2008","U+2009",
     "U+200A","U+2028","U+2029","U+202F","U+205F","U+3000"}

RECURSIVE LStrip(_)
LStrip(s) ==
    IF s # <<>> /\ Head(s) \in Whitespace THEN LStrip(Tail(s)) ELSE s

RECURSIVE RStrip(_)
RStrip(s) ==
    IF s # <<>> /\ s[Len(s)] \in Whitespace
    THEN RStrip(SubSeq(s, 1, Len(s) - 1))
    ELSE s

\* str.strip()
StrStrip(s) == RStrip(LStrip(s))

\* str.endswith(suffix)
EndsWith(s, suffix) ==
    /\ Len(s) >= Len(suffix)
    /\ SubSeq(s, Len(s) - Len(suffix) + 1, Len(s)) = suffix

\* s[:-n] for n > 0: the empty string when s has fewer than n characters.
DropLast(s, n) == IF Len(s) > n THEN SubSeq(s, 1, Len(s) - n) ELSE <<>>

\* s[-n:] for n > 0: the whole string when s has fewer than n characters.
TakeLast(s, n) == IF Len(s) > n THEN SubSeq(s, Len(s) - n + 1, Len(s)) ELSE s

DotWav == <<".","w","a","v">>

MasterSuffix == <<"_","M","a","s","t","e","r">>

FullmixWav == <<"_","_","F","U","L","L","M","I","X",".","w","a","v">>

\* ------------------------------------------------------------------------
\* Decimal arithmetic for the dB threshold.  Numbers that do not fit a
\* machine word are little-endian sequences of decimal digits.
\* ------------------------------------------------------------------------

RECURSIVE IntToDigits(_)
IntToDigits(n) ==
    IF n < 10 THEN <<n>> ELSE <<n % 10>> \o IntToDigits(n \div 10)

RECURSIVE DigitsToInt(_)
DigitsToInt(d) ==
    IF d = <<>> THEN 0 ELSE Head(d) + 10 * DigitsToInt(Tail(d))

RECURSIVE Reverse(_)
Reverse(s) == IF s = <<>> THEN <<>> ELSE Reverse(Tail(s)) \o <<Head(s)>>

\* Coefficient k (from 1) of the product of a and b before carrying.
RECURSIVE Coef(_, _, _, _)
Coef(a, b, k, i) ==
    IF i > Len(a) THEN 0
    ELSE (IF k - i + 1 >= 1 /\ k - i + 1 <= Len(b)
          THEN a[i] * b[k - i + 1] ELSE 0)
         + Coef(a, b, k, i + 1)

RECURSIVE Carry(_, _)
Carry(cs, c) ==
    IF cs = <<>>
    THEN (IF c = 0 THEN <<>> ELSE IntToDigits(c))
    ELSE <<(Head(cs) + c) % 10>> \o Carry(Tail(cs), (Head(cs) + c) \div 10)

BigMul(a, b) ==
    Carry([k \in 1..(Len(a) + Len(b) - 1) |-> Coef(a, b, k, 1)], 0)

\* Digits without leading (most significant) zeros.
RECURSIVE Trim(_)
Trim(d) ==
    IF d # <<>> /\ d[Len(d)] = 0 THEN Trim(SubSeq(d, 1, Len(d) - 1)) ELSE d

RECURSIVE LeqSameLen(_, _)
LeqSameLen(a, b) ==
    IF a = <<>> THEN TRUE
    ELSE IF a[Len(a)] # b[Len(b)] THEN a[Len(a)] < b[Len(b)]
    ELSE LeqSameLen(SubSeq(a, 1, Len(a) - 1), SubSeq(b, 1, Len(b) - 1))

BigLeq(a, b) ==
    LET x == Trim(a)
        y == Trim(b)
    IN  IF Len(x) # Len(y) THEN Len(x) < Len(y) ELSE LeqSameLen(x, y)

\* d * 10^n
ShiftUp(d, n) == [i \in 1..n |-> 0] \o d

\* d \div 10^n
DropLow(d, n) == IF Len(d) > n THEN SubSeq(d, n + 1, Len(d)) ELSE <<>>

\* 10 ** (SILENCE_THRESHOLD_DB / 20) = 1.778279410038922...e-06, held as
\* RatioDigits * 10^(-RatioScale): the sixteen leading digits.
RatioScale == 21

RatioDigits == Reverse(<<1,7,7,8,2,7,9,4,1,0,0,3,8,9,2,2>>)

\* RatioDigits is the truncation of 10^(SILENCE_THRESHOLD_DB/20) at
\* RatioScale decimals: with m = RatioDigits and e = dB/20 (a multiple of
\* 1/4), m^4 <= 10^(4*RatioScale + 4e) < (m+1)^4.
RatioMatchesThreshold ==
    LET m    == RatioDigits
        m1   == IntToDigits(DigitsToInt(SubSeq(m, 1, 4)) + 1)
                    \o SubSeq(m, 5, Len(m))
        p4(x) == BigMul(BigMul(x, x), BigMul(x, x))
        ten  == ShiftUp(<<1>>, 4 * RatioScale + (SILENCE_THRESHOLD_DB * 4) \div 20)
    IN  /\ (SILENCE_THRESHOLD_DB * 4) % 20 = 0
        /\ BigLeq(p4(m), ten)
        /\ ~BigLeq(p4(m1), ten)

\* ------------------------------------------------------------------------
\* The WAV container as the wave module presents it
\* ------------------------------------------------------------------------

\* A directory entry: a readable PCM container ("wav"), a file wave.open
\* rejects with wave.Error ("bad"), or a sub-directory ("dir").  size is the
\* byte count the header of the data chunk declares and data the bytes of
\* the chunk that are on disk: fewer than size in a file cut short.
MkWav(nch, w, size, bytes) ==
    [kind |-> "wav", nchannels |-> nch, sampwidth |-> w, size |-> size,
     data |-> bytes]

BadFile ==
    [kind |-> "bad", nchannels |-> 0, sampwidth |-> 0, size |-> 0,
     data |-> <<>>]

DirEntry ==
    [kind |-> "dir", nchannels |-> 0, sampwidth |-> 0, size |-> 0,
     data |-> <<>>]

\* wav.getnframes(): whole frames in the declared size of the data chunk.
NFrames(f) == f.size \div (f.nchannels * f.sampwidth)

Min2(a, b) == IF a <= b THEN a ELSE b

\* wav.readframes(n) with pos frames asked for so far: the bytes of those n
\* frames that are on disk, none once the file has run out.
ReadFrames(f, pos, n) ==
    LET fsz == f.nchannels * f.sampwidth
    IN  SubSeq(f.data, pos * fsz + 1, Min2((pos + n) * fsz, Len(f.data)))

Range(s) == {s[i] : i \in 1..Len(s)}

SeqMin(s) == CHOOSE x \in Range(s) : \A y \in Range(s) : x <= y

SeqMax(s) == CHOOSE x \in Range(s) : \A y \in Range(s) : x >= y

Abs(x) == IF x < 0 THEN -x ELSE x

Max2(a, b) == IF a >= b THEN a ELSE b

\* ------------------------------------------------------------------------
\* Sample decoding
\* ------------------------------------------------------------------------

SupportedWidths == {1, 2, 3, 4}

\* The typecode / max_val / center table of is_silent_fast and get_peak_db.
Typecode(w) == CASE w = 1 -> "B" [] w = 2 -> "h" [] w = 4 -> "i" [] w = 3 -> None

MaxVal(w) ==
    CASE w = 1 -> 127 [] w = 2 -> 32767 [] w = 4 -> 2147483647 [] w = 3 -> 8388607

Center(w) == CASE w = 1 -> 128 [] w = 2 -> 0 [] w = 4 -> 0 [] w = 3 -> 0

\* What the classifier yields for a sample width outside the table.
UnsupportedAsSilent(w) == "True"

UnsupportedWidth(w) == None

\* array.array(typecode).frombytes(raw): native little-endian items.
ItemSize(tc) == CASE tc = "B" -> 1 [] tc = "h" -> 2 [] tc = "i" -> 4

Item(tc, b) ==
    CASE tc = "B" -> b[1]
      [] tc = "h" -> LET u == b[1] + 256 * b[2]
                     IN  IF u >= 32768 THEN u - 65536 ELSE u
      [] tc = "i" -> (IF b[4] >= 128 THEN b[4] - 256 ELSE b[4]) * 16777216
                     + b[3] * 65536 + b[2] * 256 + b[1]

\* samples.frombytes(raw_data): raised is TRUE when the call raises
\* ValueError, "bytes length not a multiple of item size"; otherwise items
\* are the decoded samples.
FromBytes(tc, raw) ==
    IF Len(raw) % ItemSize(tc) # 0
    THEN [raised |-> TRUE, items |-> <<>>]
    ELSE [raised |-> FALSE,
          items  |-> [k \in 1..(Len(raw) \div ItemSize(tc)) |->
                        Item(tc, SubSeq(raw, (k - 1) * ItemSize(tc) + 1,
                                        k * ItemSize(tc)))]]

\* Whether the fast path raises on this chunk; the 24-bit loop never does.
ChunkRaises(w, raw) == w # 3 /\ FromBytes(Typecode(w), raw).raised

\* The 24-bit loop: val = b[0] | b[1] << 8 | b[2] << 16, sign-extended.
Val24(b) ==
    LET val == b[1] + 256 * b[2] + 65536 * b[3]
    IN  IF val >= 8388608 THEN val - 16777216 ELSE val

\* for i in range(0, len(raw), 3): if i + 3 <= len(raw)
Vals24(raw) ==
    [k \in 1..(Len(raw) \div 3) |-> Val24(SubSeq(raw, 3 * k - 2, 3 * k))]

\* ------------------------------------------------------------------------
\* Threshold
\* ------------------------------------------------------------------------

\* A rounding slip: the threshold rounded up instead of truncated.
threshold_amplitude_ceil(max_val) ==
    LET p == BigMul(IntToDigits(max_val), RatioDigits)
    IN  DigitsToInt(DropLow(p, RatioScale))
        + (IF \E i \in 1..Min2(RatioScale, Len(p)) : p[i] # 0 THEN 1 ELSE 0)

\* int(max_val * (10 ** (SILENCE_THRESHOLD_DB / 20)))
threshold_amplitude(max_val) ==
    DigitsToInt(DropLow(BigMul(IntToDigits(max_val), RatioDigits), RatioScale))

\* peak_db of get_peak_db: "-inf" for amplitude 0, else
\* 20 * log10(amp / max_val), kept as the pair it is computed from.
PeakDb(amp, max_val) ==
    IF amp = 0 THEN [inf |-> TRUE, amp |-> 0, max_val |-> max_val]
    ELSE [inf |-> FALSE, amp |-> amp, max_val |-> max_val]

NoDb == [inf |-> FALSE, amp |-> -1, max_val |-> 0]

\* peak_db <= SILENCE_THRESHOLD_DB: log10 is increasing, so
\* 20 * log10(amp / max_val) <= dB  iff  amp <= max_val * 10^(dB/20).
DbLeqThreshold(db) ==
    \/ db.inf
    \/ BigLeq(ShiftUp(IntToDigits(db.amp), RatioScale),
              BigMul(IntToDigits(db.max_val), RatioDigits))

\* ------------------------------------------------------------------------
\* One chunk of is_silent_fast / get_peak_db
\* ------------------------------------------------------------------------

\* The early exit without the test of the negative side.
ChunkExceedsMaxOnly(w, raw, thr) ==
    IF w = 3
    THEN \E k \in 1..Len(Vals24(raw)) : Abs(Vals24(raw)[k]) > thr
    ELSE SeqMax(FromBytes(Typecode(w), raw).items) - Center(w) > thr

\* is_silent_fast, one chunk: TRUE when it returns False on this chunk.
ChunkExceeds(w, raw, thr) ==
    IF w = 3
    THEN \E k \in 1..Len(Vals24(raw)) : Abs(Vals24(raw)[k]) > thr
    ELSE LET samples   == FromBytes(Typecode(w), raw).items
             chunk_min == SeqMin(samples) - Center(w)
             chunk_max == SeqMax(samples) - Center(w)
         IN  Abs(chunk_min) > thr \/ chunk_max > thr

RECURSIVE Peak24(_, _)
Peak24(vals, peak) ==
    IF vals = <<>> THEN peak
    ELSE Peak24(Tail(vals), Max2(peak, Abs(Head(vals))))

\* get_peak_db, one chunk: the new peak_amplitude.
ChunkPeak(w, raw, peak) ==
    IF w = 3 THEN Peak24(Vals24(raw), peak)
    ELSE LET samples   == FromBytes(Typecode(w), raw).items
             chunk_min == SeqMin(samples) - Center(w)
             chunk_max == SeqMax(samples) - Center(w)
         IN  IF Center(w) = 0
             THEN Max2(Max2(peak, Abs(chunk_min)), chunk_max)
             ELSE Max2(Max2(peak, Abs(chunk_min)), Abs(chunk_max))

\* get_peak_db, one chunk: whether is_all_zero stays True.
ChunkAllZero(w, raw) ==
    IF w = 3 THEN \A k \in 1..Len(Vals24(raw)) : Vals24(raw)[k] = 0
    ELSE LET samples == FromBytes(Typecode(w), raw).items
         IN  SeqMin(samples) - Center(w) = 0 /\ SeqMax(samples) - Center(w) = 0

\* ------------------------------------------------------------------------
\* State
\* ------------------------------------------------------------------------

VARIABLES
    HAS_SEND2TRASH,  \* whether the send2trash import succeeded
    DEBUG,           \* the module flag: classify through get_peak_db
    chunk_size,      \* the chunk byte budget (CHUNK_SIZE as shipped)
    fs,              \* the current directory: name -> entry
    fs0,             \* the directory as it was when the program started
    trash,           \* names moved to the recycle bin
    pc,              \* position in main()
    wav_files,       \* os.listdir order of the candidate files
    idx,             \* index of the current loop (scan, remove, rename)
    empty_files,
    master_files,
    frames_read,     \* classifier loop: frames consumed
    peak_amplitude,  \* get_peak_db: running peak
    is_all_zero,     \* get_peak_db: running flag
    is_empty,        \* is_empty_wav's verdict on the current file
    peak_db,         \* is_empty_wav's second result
    results,         \* name -> verdict, for every file classified so far
    answer,          \* what was typed at the prompt (NoAnswer before it)
    deleted,
    renamed,
    out              \* console lines printed so far

vars == <<HAS_SEND2TRASH, DEBUG, chunk_size, fs, fs0, trash, pc, wav_files,
          idx, empty_files, master_files, frames_read, peak_amplitude,
          is_all_zero, is_empty, peak_db, results, answer, deleted, renamed,
          out>>

config == <<HAS_SEND2TRASH, DEBUG, chunk_size, fs0>>

classifier == <<frames_read, peak_amplitude, is_all_zero, is_empty, peak_db>>

\* A console line: which message, and the file name, the new name and the
\* number it prints (NoName / 0 for a part the message does not have).
Line(tag, file, to, n) == [tag |-> tag, file |-> file, to |-> to, n |-> n]

NoName == <<>>

\* The prompt has not been answered.
NoAnswer == <<None>>

\* ------------------------------------------------------------------------
\* Names and directory contents explored
\* ------------------------------------------------------------------------

N_a == <<"a",".","w","a","v">>

N_bMaster == <<"b","_","M","a","s","t","e","r",".","w","a","v">>

N_bMasterUC == <<"b","_","M","a","s","t","e","r",".","W","A","V">>

N_bFullmix == <<"b","_","_","F","U","L","L","M","I","X",".","w","a","v">>

N_txt == <<"n",".","t","x","t">>

Names == {N_a, N_bMaster, N_bMasterUC, N_bFullmix, N_txt}

\* Two zero samples, 16-bit mono.
ZeroFile == MkWav(1, 2, 4, <<0, 0, 0, 0>>)

\* One 16-bit sample of magnitude 5.
LoudFile == MkWav(1, 2, 2, <<5, 0>>)

\* One frame of 64-bit PCM: a width outside the table.
WideFile == MkWav(1, 8, 8, <<1, 0, 0, 0, 0, 0, 0, 0>>)

\* One 16-bit frame declared, its second byte missing on disk.
CutFile == MkWav(1, 2, 2, <<0>>)

MainContents == {ZeroFile, LoudFile, WideFile, CutFile, BadFile, DirEntry}

Directories ==
    UNION {[S -> MainContents] :
             S \in {T \in SUBSET Names : Cardinality(T) <= MaxFiles}}

\* Every order os.listdir may give for a set of names.
Orders(S) ==
    {o \in [1..Cardinality(S) -> S] : \A i, j \in DOMAIN o : o[i] = o[j] => i = j}

\* Answers typed at the prompt.
Answers ==
    {<<"y">>, <<"Y">>, <<" ","\f","y","\r","\t">>,
     <<"U+00A0","Y","U+2003">>, <<"n">>, <<>>, <<"y","e","s">>, <<"N">>,
     <<" ","U+000B">>, <<"y","U+00AD">>, <<"U+00DD">>}

\* ------------------------------------------------------------------------
\* main(): enumeration
\* ------------------------------------------------------------------------

\* f.lower().endswith('.wav') and os.path.isfile(f)
IsCandidate(dir, f) ==
    EndsWith(StrLower(f), DotWav) /\ dir[f].kind # "dir"

\* Lines 244-274: banner, listdir, the "no WAV files" exit.
ListDir ==
    /\ pc = "start"
    /\ \E o \in Orders({f \in DOMAIN fs : IsCandidate(fs, f)}) :
         /\ wav_files' = o
         /\ IF o = <<>>
            THEN /\ pc' = "done"
                 /\ out' = Append(out, Line("NoWavFiles", NoName, NoName, 0))
            ELSE /\ pc' = "scan"
                 /\ out' = Append(out, Line("Found", NoName, NoName, Len(o)))
    /\ idx' = 1
    /\ empty_files' = <<>>
    /\ master_files' = <<>>
    /\ UNCHANGED <<config, fs, trash, classifier, results, answer, deleted,
                   renamed>>

\* ------------------------------------------------------------------------
\* is_empty_wav / is_silent_fast / get_peak_db
\* ------------------------------------------------------------------------

\* The file the scan loop is at.
CurName == wav_files[idx]

CurFile == fs[CurName]

\* frames_per_chunk = CHUNK_SIZE // (n_channels * sample_width)
FramesPerChunk(f) == chunk_size \div (f.nchannels * f.sampwidth)

\* What the classifier returns when its while loop ends without an early
\* exit: True for is_silent_fast; peak_db <= SILENCE_THRESHOLD_DB through
\* get_peak_db and is_empty_wav.
LoopEndVerdict(f, peak) ==
    IF DEBUG
    THEN (IF DbLeqThreshold(PeakDb(peak, MaxVal(f.sampwidth)))
          THEN "True" ELSE "False")
    ELSE "True"

\* Lines 276-282 up to the classifier's while loop: the _Master test, then
\* wave.open, the zero-frame return and the sample-width table.
ScanBegin ==
    /\ pc = "scan"
    /\ idx <= Len(wav_files)
    /\ master_files' =
         IF EndsWith(DropLast(CurName, 4), MasterSuffix)
         THEN Append(master_files, CurName)
         ELSE master_files
    /\ frames_read' = 0
    /\ peak_amplitude' = 0
    /\ is_all_zero' = TRUE
    /\ IF CurFile.kind # "wav"
       THEN \* wave.Error: (None, None) / None
            /\ is_empty' = None
            /\ peak_db' = NoDb
            /\ pc' = "classified"
            /\ out' = Append(out, Line("ErrorReading", CurName, NoName, 0))
       ELSE IF NFrames(CurFile) = 0
       THEN \* n_frames == 0: (-inf, True) / True
            /\ is_empty' = "True"
            /\ peak_db' = IF DEBUG THEN PeakDb(0, 0) ELSE NoDb
            /\ pc' = "classified"
            /\ out' = out
       ELSE IF CurFile.sampwidth \notin SupportedWidths
       THEN /\ is_empty' = UnsupportedWidth(CurFile.sampwidth)
            /\ peak_db' = NoDb
            /\ pc' = "classified"
            /\ out' = Append(out, Line("Unsupported", NoName, NoName,
                                       CurFile.sampwidth))
       ELSE /\ is_empty' = None
            /\ peak_db' = NoDb
            /\ pc' = "read"
            /\ out' = out
    /\ UNCHANGED <<config, fs, trash, wav_files, idx, empty_files, results,
                   answer, deleted, renamed>>

\* One pass of "while frames_read < n_frames" (lines 180-211 / 79-116).
ReadChunk ==
    /\ pc = "read"
    /\ frames_read < NFrames(CurFile)
    /\ LET f            == CurFile
           w            == f.sampwidth
           chunk_frames == Min2(FramesPerChunk(f), NFrames(f) - frames_read)
           raw_data     == ReadFrames(f, frames_read, chunk_frames)
           thr          == threshold_amplitude(MaxVal(w))
       IN  IF raw_data = <<>>
           THEN \* break
                /\ is_empty' = LoopEndVerdict(f, peak_amplitude)
                /\ peak_db' = IF DEBUG
                              THEN PeakDb(peak_amplitude, MaxVal(w)) ELSE NoDb
                /\ pc' = "classified"
                /\ UNCHANGED <<frames_read, peak_amplitude, is_all_zero, out>>
           ELSE IF ChunkRaises(w, raw_data)
           THEN \* ValueError, caught by "except Exception": None
                /\ is_empty' = None
                /\ peak_db' = NoDb
                /\ pc' = "classified"
                /\ out' = Append(out,
                                 Line("ErrorProcessing", CurName, NoName, 0))
                /\ UNCHANGED <<frames_read, peak_amplitude, is_all_zero>>
           ELSE IF ~DEBUG /\ ChunkExceeds(w, raw_data, thr)
           THEN \* return False
                /\ is_empty' = "False"
                /\ pc' = "classified"
                /\ UNCHANGED <<frames_read, peak_amplitude, is_all_zero,
                               peak_db, out>>
           ELSE /\ frames_read' = frames_read + chunk_frames
                /\ peak_amplitude' =
                     IF DEBUG THEN ChunkPeak(w, raw_data, peak_amplitude)
                     ELSE peak_amplitude
                /\ is_all_zero' =
                     IF DEBUG THEN is_all_zero /\ ChunkAllZero(w, raw_data)
                     ELSE is_all_zero
                /\ UNCHANGED <<is_empty, peak_db, pc, out>>
    /\ UNCHANGED <<config, fs, trash, wav_files, idx, empty_files,
                   master_files, results, answer, deleted, renamed>>

\* The while condition fails: lines 213 / 118-124 and is_empty_wav's return.
ScanReturn ==
    /\ pc = "read"
    /\ frames_read >= NFrames(CurFile)
    /\ is_empty' = LoopEndVerdict(CurFile, peak_amplitude)
    /\ peak_db' = IF DEBUG
                  THEN PeakDb(peak_amplitude, MaxVal(CurFile.sampwidth))
                  ELSE NoDb
    /\ pc' = "classified"
    /\ UNCHANGED <<config, fs, trash, wav_files, idx, empty_files,
                   master_files, frames_read, peak_amplitude, is_all_zero,
                   results, answer, deleted, renamed, out>>

\* Lines 284-310: route the verdict and print the file's line.
ScanEnd ==
    /\ pc = "classified"
    /\ results' = [n \in DOMAIN results \cup {CurName} |->
                     IF n = CurName THEN is_empty ELSE results[n]]
    /\ empty_files' = IF is_empty = "True"
                      THEN Append(empty_files, CurName) ELSE empty_files
    /\ out' = IF is_empty = "True"
              THEN Append(out, Line("EMPTY", CurName, NoName, 0))
              ELSE IF is_empty = "False"
              THEN (IF EndsWith(DropLast(CurName, 4), MasterSuffix)
                    THEN Append(out, Line("MASTER", CurName, NoName, 0))
                    ELSE Append(out, Line("OK", CurName, NoName, 0)))
              ELSE out
    /\ idx' = idx + 1
    /\ pc' = "scan"
    /\ UNCHANGED <<config, fs, trash, wav_files, master_files, classifier,
                   answer, deleted, renamed>>

\* ------------------------------------------------------------------------
\* main(): plan, prompt, remove, rename, summary
\* ------------------------------------------------------------------------

Contains(list, f) == \E i \in 1..Len(list) : list[i] = f

RECURSIVE Filter(_, _)
Filter(list, drop) ==
    IF list = <<>> THEN <<>>
    ELSE IF Contains(drop, Head(list)) THEN Filter(Tail(list), drop)
    ELSE <<Head(list)>> \o Filter(Tail(list), drop)

\* The list left as the scan built it.
DedupNone(masters, empties) == masters

\* Line 316: master_files = [f for f in master_files if f not in empty_files]
Dedup(masters, empties) == Filter(masters, empties)

\* Lines 333 and 366: new_name = filename[:-11] + "__FULLMIX.wav"
NewName(f) == DropLast(f, 11) \o FullmixWav

\* Lines 312-335: dedup, the "nothing found" exit, the printed plan.
Plan ==
    /\ pc = "scan"
    /\ idx > Len(wav_files)
    /\ LET masters == Dedup(master_files, empty_files)
       IN  /\ master_files' = masters
           /\ IF empty_files = <<>> /\ masters = <<>>
              THEN /\ pc' = "done"
                   /\ out' = Append(out, Line("NothingFound", NoName, NoName, 0))
              ELSE /\ pc' = "prompt"
                   /\ out' = out
                        \o [i \in 1..Len(empty_files) |->
                              Line("PlanDelete", empty_files[i], NoName, 0)]
                        \o [i \in 1..Len(masters) |->
                              Line("PlanRename", masters[i],
                                   NewName(masters[i]), 0)]
    /\ UNCHANGED <<config, fs, trash, wav_files, idx, empty_files, classifier,
                   results, answer, deleted, renamed>>

\* Proceeds on anything but a typed "n".
ConfirmedUnlessNo(typed) == StrLower(StrStrip(typed)) # <<"n">>

\* Lines 337-339: input(...).strip().lower() == 'y'
Confirmed(typed) == StrLower(StrStrip(typed)) = <<"y">>

\* Where main() goes once the remove loop is over (or was empty).
AfterRemoveLoop == IF master_files # <<>> THEN "rename" ELSE "summary"

\* Lines 337-346: the prompt; anything but y cancels.
Prompt ==
    /\ pc = "prompt"
    /\ \E typed \in Answers :
         /\ answer' = typed
         /\ IF Confirmed(typed)
            THEN /\ pc' = IF empty_files # <<>> THEN "remove"
                          ELSE AfterRemoveLoop
                 /\ out' = out
            ELSE /\ pc' = "done"
                 /\ out' = Append(out, Line("Cancelled", NoName, NoName, 0))
    /\ idx' = 1
    /\ deleted' = 0
    /\ UNCHANGED <<config, fs, trash, wav_files, empty_files, master_files,
                   classifier, results, renamed>>

Without(dir, f) == [n \in DOMAIN dir \ {f} |-> dir[n]]

\* os.rename(old, new) on POSIX: new now names what old named.
Renamed(dir, old, new) ==
    [n \in (DOMAIN dir \ {old}) \cup {new} |->
        IF n = new THEN dir[old] ELSE dir[n]]

\* The exception of a failed removal leaves main().
AfterRemoveAbort(ok, i) ==
    IF ~ok THEN "done"
    ELSE IF i < Len(empty_files) THEN "remove" ELSE AfterRemoveLoop

\* Lines 348-359: the for loop and its try/except: whatever the outcome
\* of entry i, the loop goes on to entry i + 1.
AfterRemove(ok, i) ==
    IF i < Len(empty_files) THEN "remove" ELSE AfterRemoveLoop

\* Lines 348-359, one entry: send2trash or os.remove; either may raise.
RemoveStep ==
    /\ pc = "remove"
    /\ idx <= Len(empty_files)
    /\ \E ok \in BOOLEAN :
         LET filename == empty_files[idx]
         IN  /\ IF ok /\ filename \in DOMAIN fs
                THEN /\ fs' = Without(fs, filename)
                     /\ trash' = IF HAS_SEND2TRASH
                                 THEN trash \cup {filename} ELSE trash
                     /\ deleted' = deleted + 1
                     /\ out' = Append(out,
                          Line(IF HAS_SEND2TRASH THEN "Recycled"
                               ELSE "DeletedPermanently", filename, NoName, 0))
                ELSE /\ out' = Append(out,
                          Line("FailedDelete", filename, NoName, 0))
                     /\ UNCHANGED <<fs, trash, deleted>>
             /\ pc' = AfterRemove(ok /\ filename \in DOMAIN fs, idx)
             /\ idx' = IF pc' = "remove" THEN idx + 1 ELSE 1
    /\ UNCHANGED <<config, wav_files, empty_files, master_files, classifier,
                   results, answer, renamed>>

\* The rename without the existence test.
TargetNeverExists(dir, new_name) == FALSE

\* Line 371: os.path.exists(new_path)
TargetExists(dir, new_name) == new_name \in DOMAIN dir

\* Lines 364-379, one entry: skip when the target exists, else os.rename,
\* which may raise.
RenameStep ==
    /\ pc = "rename"
    /\ idx <= Len(master_files)
    /\ \E ok \in BOOLEAN :
         LET filename == master_files[idx]
             new_name == NewName(filename)
         IN  IF TargetExists(fs, new_name)
             THEN /\ out' = Append(out, Line("Skipped", filename, NoName, 0))
                  /\ UNCHANGED <<fs, renamed>>
             ELSE IF ok /\ filename \in DOMAIN fs
             THEN /\ fs' = Renamed(fs, filename, new_name)
                  /\ renamed' = renamed + 1
                  /\ out' = Append(out, Line("Renamed", filename, new_name, 0))
             ELSE /\ out' = Append(out,
                                   Line("FailedRename", filename, NoName, 0))
                  /\ UNCHANGED <<fs, renamed>>
    /\ pc' = IF idx < Len(master_files) THEN "rename" ELSE "summary"
    /\ idx' = IF idx < Len(master_files) THEN idx + 1 ELSE 1
    /\ UNCHANGED <<config, trash, wav_files, empty_files, master_files,
                   classifier, results, answer, deleted>>

\* Lines 381-389: the closing counts.
Summary ==
    /\ pc = "summary"
    /\ out' = out
         \o (IF deleted > 0
             THEN <<Line(IF HAS_SEND2TRASH THEN "SummaryRecycled"
                         ELSE "SummaryDeletedPermanently",
                         NoName, NoName, deleted)>>
             ELSE <<>>)
         \o (IF renamed > 0
             THEN <<Line("SummaryRenamed", NoName, NoName, renamed)>>
             ELSE <<>>)
    /\ pc' = "done"
    /\ UNCHANGED <<config, fs, trash, wav_files, idx, empty_files,
                   master_files, classifier, results, answer, deleted,
                   renamed>>

\* ------------------------------------------------------------------------
\* The program
\* ------------------------------------------------------------------------

InitRest ==
    /\ fs0 = fs
    /\ trash = {}
    /\ pc = "start"
    /\ wav_files = <<>>
    /\ idx = 1
    /\ empty_files = <<>>
    /\ master_files = <<>>
    /\ frames_read = 0
    /\ peak_amplitude = 0
    /\ is_all_zero = TRUE
    /\ is_empty = None
    /\ peak_db = NoDb
    /\ results = <<>>
    /\ answer = NoAnswer
    /\ deleted = 0
    /\ renamed = 0
    /\ out = <<>>

Init ==
    /\ HAS_SEND2TRASH \in BOOLEAN
    /\ DEBUG \in BOOLEAN
    /\ chunk_size = CHUNK_SIZE
    /\ fs \in Directories
    /\ InitRest

Next ==
    \/ ListDir
    \/ ScanBegin
    \/ ReadChunk
    \/ ScanReturn
    \/ ScanEnd
    \/ Plan
    \/ Prompt
    \/ RemoveStep
    \/ RenameStep
    \/ Summary

Spec == Init /\ [][Next]_vars

\* Once confirmed the batch is straight-line code over blocking calls that
\* return: each of its steps is taken.  The prompt itself waits for the user.
FairSpec ==
    Spec /\ WF_vars(RemoveStep) /\ WF_vars(RenameStep) /\ WF_vars(Summary)

\* ------------------------------------------------------------------------
\* The classifier alone: one file, any sample data, any chunk budget
\* ------------------------------------------------------------------------

\* Stored samples explored per width: silence, the values at and next to
\* the threshold amplitude on both sides, and an extreme.
SampleBytes(w) ==
    CASE w = 1 -> {<<128>>, <<127>>, <<129>>, <<0>>, <<255>>}
      [] w = 2 -> {<<0,0>>, <<1,0>>, <<255,255>>, <<5,0>>, <<6,0>>, <<0,128>>}
      [] w = 3 -> {<<0,0,0>>, <<14,0,0>>, <<15,0,0>>, <<242,255,255>>,
                   <<241,255,255>>, <<0,0,128>>}
      [] w = 4 -> {<<0,0,0,0>>, <<234,14,0,0>>, <<235,14,0,0>>,
                   <<22,241,255,255>>, <<21,241,255,255>>, <<255,255,255,127>>}
      [] w = 8 -> {<<0,0,0,0,0,0,0,0>>, <<1,0,0,0,0,0,0,0>>}

Widths == {1, 2, 3, 4, 8}

RECURSIVE Flatten(_)
Flatten(ss) == IF ss = <<>> THEN <<>> ELSE Head(ss) \o Flatten(Tail(ss))

\* The bytes a file may be missing at its end: none, one (the last sample is
\* left incomplete when it is wider than a byte) or one whole sample.
Cuts(w) == {0, 1, w}

\* The files with the declared data `bytes` and its last c bytes missing.
CutShort(nch, w, bytes) ==
    {MkWav(nch, w, Len(bytes), SubSeq(bytes, 1, Len(bytes) - c)) :
       c \in {d \in Cuts(w) : d <= Len(bytes)}}

ClassifyFiles ==
    {BadFile} \cup
    UNION {UNION {CutShort(nch, w, Flatten(ss)) :
                    ss \in UNION {[1..n -> SampleBytes(w)] :
                                    n \in {m \in 0..MaxSamples : m % nch = 0}}} :
           nch \in {1, 2}, w \in Widths}

ChunkBudgets(f) ==
    {CHUNK_SIZE} \cup
    ({k * f.nchannels * f.sampwidth : k \in 1..MaxChunkFrames} \ {0})

ClassifyInit ==
    /\ HAS_SEND2TRASH = TRUE
    /\ DEBUG \in BOOLEAN
    /\ \E f \in ClassifyFiles, name \in {N_a, N_bMaster} :
         /\ fs = [n \in {name} |-> f]
         /\ chunk_size \in ChunkBudgets(f)
    /\ InitRest

ClassifyNext == ListDir \/ ScanBegin \/ ReadChunk \/ ScanReturn \/ ScanEnd

ClassifySpec == ClassifyInit /\ [][ClassifyNext]_vars

\* ------------------------------------------------------------------------
\* Properties
\* ------------------------------------------------------------------------

\* The scan is over and line 316 has run.
PlanMade == pc \in {"prompt", "remove", "rename", "summary", "done"}

HasMasterStem(f) == EndsWith(DropLast(f, 4), MasterSuffix)

UnsupportedWav(f) == f.kind = "wav" /\ f.sampwidth \notin SupportedWidths

\* Section 4.1 of the specification: the magnitude of one stored sample.
\* Width 1 is |stored - 128|; the other widths are the absolute value of
\* the little-endian two's-complement integer.
Magnitude(w, b) ==
    IF w = 1 THEN Abs(b[1] - 128)
    ELSE LET RECURSIVE Pow256(_)
             Pow256(k) == IF k = 0 THEN 1 ELSE 256 * Pow256(k - 1)
             RECURSIVE LowLE(_)
             LowLE(k) == IF k = w THEN 0
                         ELSE b[k] * Pow256(k - 1) + LowLE(k + 1)
             top == IF b[w] >= 128 THEN b[w] - 256 ELSE b[w]
         IN  Abs(top * Pow256(w - 1) + LowLE(1))

\* Peak magnitude of a whole file, sample by sample, with no chunking.
PeakMagnitude(f) ==
    LET w == f.sampwidth
        n == Len(f.data) \div w
        m == [k \in 1..n |-> Magnitude(w, SubSeq(f.data, (k - 1) * w + 1, k * w))]
    IN  IF n = 0 THEN 0 ELSE SeqMax(m)

\* Console lines that report one attempted entry of the batch.
IsRemoveLine(l) == l.tag \in {"Recycled", "DeletedPermanently", "FailedDelete"}

IsRenameLine(l) == l.tag \in {"Skipped", "Renamed", "FailedRename"}

IsAttemptLine(l) == IsRemoveLine(l) \/ IsRenameLine(l)

\* The files attempted so far, in order.
Attempted ==
    LET sel == SelectSeq(out, IsAttemptLine)
    IN  [i \in 1..Len(sel) |-> sel[i].file]

\* Lines that tell the user a deletion is permanent (lines 356 and 386).
IsFallbackAnnouncement(l) ==
    l.tag \in {"DeletedPermanently", "SummaryDeletedPermanently"}

\* Lines printed once a removal or a rename has been carried out.
IsPerformedLine(l) == l.tag \in {"Recycled", "DeletedPermanently", "Renamed"}

\* C1: once the plan is made, a file whose classification is Unreadable
\* (is_empty_wav returned None) is in neither empty_files nor master_files,
\* whatever its name.
C1_UnreadableExcluded ==
    PlanMade =>
        \A f \in DOMAIN results :
            results[f] = None =>
                ~Contains(empty_files, f) /\ ~Contains(master_files, f)

\* C2: once the plan is made, empty_files and master_files share no file,
\* and a Silent file with a _Master stem is in empty_files only.
C2_Disjoint ==
    PlanMade =>
        /\ \A i \in 1..Len(empty_files), j \in 1..Len(master_files) :
               empty_files[i] # master_files[j]
        /\ \A f \in DOMAIN results :
               results[f] = "True" /\ HasMasterStem(f) =>
                   Contains(empty_files, f) /\ ~Contains(master_files, f)

C2_Witness ==
    /\ PlanMade
    /\ \E f \in DOMAIN results :
           results[f] = "True" /\ HasMasterStem(f) /\ Contains(empty_files, f)

\* C3: unless the answer typed at the prompt is y or Y once trimmed, the
\* directory is exactly as it was at the start and nothing is in the trash;
\* this covers the runs that end without a prompt.
C3_NoMutationUnlessYes ==
    (answer = NoAnswer \/ StrStrip(answer) \notin {<<"y">>, <<"Y">>}) =>
        fs = fs0 /\ trash = {}

C3_Witness ==
    /\ pc = "done"
    /\ answer = <<"y","e","s">>
    /\ empty_files # <<>>
    /\ master_files # <<>>

\* C4: a step of the rename loop leaves the directory and the renamed count
\* alone and prints "Skipped" when the target exists; it changes the
\* directory only when the target does not exist, and then by renaming the
\* source to the target and counting it.
C4_NoOverwrite ==
    [][pc = "rename" =>
         LET f == master_files[idx]
             t == NewName(f)
         IN  /\ t \in DOMAIN fs =>
                  /\ fs' = fs
                  /\ renamed' = renamed
                  /\ out' = Append(out, Line("Skipped", f, NoName, 0))
             /\ fs' # fs =>
                  /\ t \notin DOMAIN fs
                  /\ f \in DOMAIN fs
                  /\ DOMAIN fs' = (DOMAIN fs \ {f}) \cup {t}
                  /\ fs'[t] = fs[f]
                  /\ \A n \in DOMAIN fs \ {f} : fs'[n] = fs[n]
                  /\ renamed' = renamed + 1]_vars

\* An entry skipped because an earlier rename of the batch made its target.
C4_Witness ==
    \E i, j \in 1..Len(out) :
        /\ i < j
        /\ out[i].tag = "Renamed"
        /\ out[j].tag = "Skipped"
        /\ out[i].to = NewName(out[j].file)
        /\ out[j].file \in DOMAIN fs

\* C5: for a supported width and a file whose data is a sequence of whole
\* samples (as many as declared or fewer), is_silent_fast returns True
\* exactly when the peak magnitude of the whole file is at most the
\* threshold amplitude, whatever the chunking; a file without frames is
\* Silent.
C5_ThresholdClassifier ==
    (/\ pc = "classified"
     /\ ~DEBUG
     /\ CurFile.kind = "wav"
     /\ CurFile.sampwidth \in SupportedWidths
     /\ Len(CurFile.data) % CurFile.sampwidth = 0) =>
        (is_empty = "True" <=>
            PeakMagnitude(CurFile)
                <= threshold_amplitude(MaxVal(CurFile.sampwidth)))

\* An early exit in the middle of a file whose peak is one above a
\* non-zero threshold amplitude.
C5_Witness ==
    /\ pc = "classified"
    /\ ~DEBUG
    /\ CurFile.kind = "wav"
    /\ CurFile.sampwidth \in SupportedWidths
    /\ Len(CurFile.data) % CurFile.sampwidth = 0
    /\ is_empty = "False"
    /\ 0 < frames_read
    /\ frames_read + FramesPerChunk(CurFile) < NFrames(CurFile)
    /\ threshold_amplitude(MaxVal(CurFile.sampwidth)) > 0
    /\ PeakMagnitude(CurFile)
         = threshold_amplitude(MaxVal(CurFile.sampwidth)) + 1

\* C6: once confirmed, the entries attempted are always a prefix of
\* empty_files followed by master_files, the run reaches its end, and at
\* its end every entry has been attempted exactly once, in that order.
C6_BatchCompletes ==
    /\ [](PlanMade /\ Confirmed(answer) =>
            LET all == empty_files \o master_files
            IN  /\ Len(Attempted) <= Len(all)
                /\ Attempted = SubSeq(all, 1, Len(Attempted))
                /\ pc = "done" => Attempted = all)
    /\ [](Confirmed(answer) => <>(pc = "done"))

\* A failed removal followed by a later attempt, at the end of the run.
C6_Witness ==
    /\ pc = "done"
    /\ \E i, j \in 1..Len(out) :
           /\ i < j
           /\ out[i].tag = "FailedDelete"
           /\ IsAttemptLine(out[j])

\* C7: without send2trash, once the directory has been changed, exactly one
\* line announcing permanent deletion has been printed, and it precedes
\* every line of a performed removal or rename.
C7_AnnouncedOnceBefore ==
    (~HAS_SEND2TRASH /\ fs # fs0) =>
        \E i \in 1..Len(out) :
            /\ IsFallbackAnnouncement(out[i])
            /\ \A k \in 1..Len(out) : IsFallbackAnnouncement(out[k]) => k = i
            /\ \A j \in 1..Len(out) : IsPerformedLine(out[j]) => i < j

\* C8 as stated: at width 2 and -115 dB a file of whole samples with a peak
\* of 5 is Silent and one with a peak of 6 is NotSilent.
C8_PeakFiveSilent ==
    (/\ pc = "classified"
     /\ ~DEBUG
     /\ CurFile.kind = "wav"
     /\ CurFile.sampwidth = 2
     /\ Len(CurFile.data) % 2 = 0) =>
        /\ PeakMagnitude(CurFile) = 5 => is_empty = "True"
        /\ PeakMagnitude(CurFile) = 6 => is_empty = "False"

\* C8 amended: at width 2 and -115 dB the threshold amplitude
\* floor(32767 * 10^(-115/20)) is 0, so a width-2 file of whole samples is
\* Silent exactly when its peak magnitude is 0; peaks of 5 and 6 are both
\* NotSilent.
C8_ThresholdZero ==
    (/\ pc = "classified"
     /\ ~DEBUG
     /\ CurFile.kind = "wav"
     /\ CurFile.sampwidth = 2
     /\ Len(CurFile.data) % 2 = 0) =>
        /\ RatioMatchesThreshold
        /\ threshold_amplitude(32767) = 0
        /\ is_empty = "True" <=> PeakMagnitude(CurFile) = 0

C8_Witness ==
    /\ pc = "classified"
    /\ ~DEBUG
    /\ CurFile.kind = "wav"
    /\ CurFile.sampwidth = 2
    /\ Len(CurFile.data) % 2 = 0
    /\ PeakMagnitude(CurFile) = 5
    /\ is_empty = "False"

\* C9: every rename target printed in the plan or used in the rename loop
\* belongs to a name with the _Master stem and is that name with _Master
\* replaced by __FULLMIX and the last four characters kept as they were.
C9_TargetKeepsExtension ==
    \A i \in 1..Len(out) :
        out[i].tag \in {"PlanRename", "Renamed"} =>
            /\ HasMasterStem(out[i].file)
            /\ out[i].to =
                 DropLast(out[i].file, 11)
                     \o <<"_","_","F","U","L","L","M","I","X">>
                     \o TakeLast(out[i].file, 4)

\* C10 as stated: a file of unsupported width is classified None whatever
\* its frame count, and is never in empty_files.
C10_UnsupportedUnreadable ==
    /\ (pc = "classified" /\ UnsupportedWav(CurFile)) => is_empty = None
    /\ \A i \in 1..Len(empty_files) : ~UnsupportedWav(fs0[empty_files[i]])

\* C10 amended: a file of unsupported width with at least one frame is
\* classified None by either classifier and is never in empty_files; with
\* no frames it is classified Silent before its width is looked at.
C10_UnsupportedWithFrames ==
    /\ (pc = "classified" /\ UnsupportedWav(CurFile)) =>
           IF NFrames(CurFile) > 0 THEN is_empty = None ELSE is_empty = "True"
    /\ \A i \in 1..Len(empty_files) :
           UnsupportedWav(fs0[empty_files[i]]) =>
               NFrames(fs0[empty_files[i]]) = 0

C10_Witness ==
    /\ pc = "scan"
    /\ DEBUG
    /\ \E f \in DOMAIN results :
           /\ UnsupportedWav(fs0[f])
           /\ NFrames(fs0[f]) > 0
           /\ results[f] = None
           /\ ~Contains(empty_files, f)

====
